---- MODULE Spec2Model ----
(***************************************************************************)
(* Two-channel CV quantizer (src/quantizer/quantizer.ino).                 *)
(*                                                                         *)
(* Continuous semitone values that feed quantizeToScale are kept as exact  *)
(* rationals with denominator SEMI_DEN = 1023 (the divisor of              *)
(* adcToSemitone): the value v is the integer v * 1023.  For adc in        *)
(* 0..1023 the value adc*60/1023 is never closer than 1/2046 to a half     *)
(* integer (adc*120 is even, 1023*(2k+1) is odd), which is far more than   *)
(* the float rounding error at magnitude 60, so float and exact rounding   *)
(* pick the same integer.                                                  *)
(***************************************************************************)
EXTENDS Integers, Sequences, FiniteSets, TLC

\* ---------------------------------------------------------------- constants

MAX_SEMITONES_INT == 60

NUM_SCALES == 7

ADC_MAX == 1023

SEMI_DEN == 1023

INT_MIN == -32768

INT_MAX == 32767

SEARCH_RADIUS == 12

BUTTON_DEBOUNCE_MS == 30

LED_INTERVAL_MS == 120

HIGH == 1

LOW == 0

PWM_MAX == 255

SNAPPY_BELOW == 10

PORT_DIVISOR == 32

SCALE_MASKS ==
  << << 1, 0, 1, 0, 1, 1, 0, 1, 0, 1, 0, 1 >>,
     << 1, 0, 1, 1, 0, 1, 0, 1, 1, 0, 1, 0 >>,
     << 1, 0, 1, 1, 0, 1, 0, 1, 1, 0, 0, 1 >>,
     << 1, 0, 1, 0, 1, 0, 0, 1, 0, 1, 0, 0 >>,
     << 1, 0, 0, 1, 0, 1, 0, 1, 0, 0, 1, 0 >>,
     << 1, 0, 1, 1, 0, 1, 0, 1, 0, 1, 1, 0 >>,
     << 1, 1, 0, 1, 0, 1, 0, 1, 1, 0, 1, 0 >> >>

SCALE_MAJOR == 0

SCALE_PENT_MINOR == 4

\* SCALE_MASKS[k] of the source (0-based) is ScaleMask(k).
ScaleMask(k) == SCALE_MASKS[k + 1]

\* ------------------------------------------------------------------- bounds

\* Semitone values handed to quantizeToScale directly (not through the ADC)
\* range over the whole semitones from BelowRange under 0 to AboveRange over
\* MAX_SEMITONES_INT, and two values whose conversion to int is out of range.
BelowRange == 2

AboveRange == 2

\* millis() may advance by up to MaxSkew ms between two reads in one tick.
MaxSkew == 1

\* The clock is followed up to these times in the loop specifications.
MaxMillisBypass == 80

MaxMillisDebounce == 100

MaxMillisRange == 62

MaxMillisTarget == 62

MaxMillisBlink == 2000

MaxMillisTwin == 600

\* In the specification with fairness the scale pot may move until
\* LastChangeMillis and the clock is followed up to MaxMillisLive, long after
\* the longest sequence armed by then has ended.
LastChangeMillis == 240

MaxMillisLive == 4800

\* ------------------------------------------------------------------ helpers

\* C's % truncates toward zero.
CMod(a, b) == IF a >= 0 THEN a % b ELSE -((-a) % b)

Abs(a) == IF a >= 0 THEN a ELSE -a

\* C's / truncates toward zero.
CDiv(a, b) == IF a >= 0 THEN a \div b ELSE -((-a) \div b)

\* Arduino's map(): long arithmetic, truncating division.
map(x, in_min, in_max, out_min, out_max) ==
  CDiv((x - in_min) * (out_max - out_min), in_max - in_min) + out_min

Clamp(x, lo, hi) == IF x < lo THEN lo ELSE IF x > hi THEN hi ELSE x

adcToSemitone(adc) ==
  LET a == IF adc < 0 THEN 0 ELSE IF adc > ADC_MAX THEN ADC_MAX ELSE adc
  IN  a * MAX_SEMITONES_INT

noteInScale(semitone, mask) ==
  LET deg0 == CMod(semitone, 12)
      deg  == IF deg0 < 0 THEN deg0 + 12 ELSE deg0
  IN  mask[deg + 1] # 0

\* (int)(semi + (semi >= 0 ? 0.5 : -0.5)) for a value inside the int range.
RoundHalfAway(semi) ==
  IF semi >= 0 THEN (2 * semi + SEMI_DEN) \div (2 * SEMI_DEN)
  ELSE -((2 * (-semi) + SEMI_DEN) \div (2 * SEMI_DEN))

\* The float-to-int conversion of line 139.  A value outside the int range
\* makes the conversion undefined: any int may come out.
IntSamples == {INT_MIN, -13, -1, 0, 30, MAX_SEMITONES_INT, MAX_SEMITONES_INT + 1, INT_MAX}

RoundOutcomes(semi) ==
  IF semi >= INT_MIN * SEMI_DEN /\ semi <= INT_MAX * SEMI_DEN
  THEN {RoundHalfAway(semi)}
  ELSE IntSamples

\* Mutant of ClampNote: the upper clamp is missing.
ClampNoteLowOnly(note) == IF note < 0 THEN 0 ELSE note

ClampNote(note) ==
  IF note < 0 THEN 0
  ELSE IF note > MAX_SEMITONES_INT THEN MAX_SEMITONES_INT ELSE note

\* Mutant of SearchFrom: the upper neighbour is tested before the lower one.
RECURSIVE SearchFromUpFirst(_, _, _)
SearchFromUpFirst(note, mask, d) ==
  IF d > SEARCH_RADIUS
  THEN [found |-> FALSE, note |-> ClampNote(note)]
  ELSE IF note + d <= MAX_SEMITONES_INT /\ noteInScale(note + d, mask)
  THEN [found |-> TRUE, note |-> note + d]
  ELSE IF note - d >= 0 /\ noteInScale(note - d, mask)
  THEN [found |-> TRUE, note |-> note - d]
  ELSE SearchFromUpFirst(note, mask, d + 1)

\* Mutant of SearchFrom: the loop runs for radius 0 only (d <= 0).
SearchFromNoWiden(note, mask, d) ==
  IF d = 0 /\ note >= 0 /\ note <= MAX_SEMITONES_INT /\ noteInScale(note, mask)
  THEN [found |-> TRUE, note |-> note]
  ELSE [found |-> FALSE, note |-> ClampNote(note)]

\* The radius loop of quantizeToScale, from radius d on; it reports whether
\* it returned inside the loop or fell through to the fallback.
RECURSIVE SearchFrom(_, _, _)
SearchFrom(note, mask, d) ==
  IF d > SEARCH_RADIUS
  THEN [found |-> FALSE, note |-> ClampNote(note)]
  ELSE IF note - d >= 0 /\ noteInScale(note - d, mask)
  THEN [found |-> TRUE, note |-> note - d]
  ELSE IF note + d <= MAX_SEMITONES_INT /\ noteInScale(note + d, mask)
  THEN [found |-> TRUE, note |-> note + d]
  ELSE SearchFrom(note, mask, d + 1)

\* Mutant of QuantizeNote: the search starts at radius 1.
QuantizeNoteSkipSelf(rounded, mask) == SearchFrom(ClampNote(rounded), mask, 1)

\* quantizeToScale from the converted integer on.
QuantizeNote(rounded, mask) == SearchFrom(ClampNote(rounded), mask, 0)

\* quantizeToScale for a value whose conversion to int is defined.
quantizeToScale(semi, mask) == QuantizeNote(RoundHalfAway(semi), mask).note

\* ------------------------------------------------- IEEE single arithmetic
\* currentSemi and targetSemi are floats.  A float is the record
\* [m |-> mantissa, e |-> exponent] with value m * 2^e, in the unique form
\* with m odd (or m = 0, e = 0), |m| < 2^24 and e >= FLT_MIN_EXP.  Each
\* operation computes the exact result and rounds it once, to nearest, ties
\* to even, as the float operations of the build do.  The values of this
\* program stay far below the overflow threshold, which is not modelled.

FLT_MANT_BITS == 24

FLT_MIN_EXP == -149

Pow2Table ==
  << 1, 2, 4, 8, 16, 32, 64, 128, 256, 512, 1024, 2048, 4096, 8192, 16384,
     32768, 65536, 131072, 262144, 524288, 1048576, 2097152, 4194304,
     8388608, 16777216, 33554432, 67108864, 134217728, 268435456, 536870912,
     1073741824 >>

\* 2^k for k in 0..30.
Pow2(k) == IF k <= 0 THEN 1 ELSE Pow2Table[k + 1]

\* The number of bits of x, for 0 <= x < 2^31.
BitLen4(x) == IF x < 4 THEN (IF x < 2 THEN x ELSE 2) ELSE IF x < 8 THEN 3 ELSE 4

BitLen8(x) == IF x < 16 THEN BitLen4(x) ELSE 4 + BitLen4(x \div 16)

BitLen(x) ==
  IF x < 65536
  THEN (IF x < 256 THEN BitLen8(x) ELSE 8 + BitLen8(x \div 256))
  ELSE (IF x < 16777216 THEN 16 + BitLen8(x \div 65536)
        ELSE 24 + BitLen8(x \div 16777216))

Max(a, b) == IF a >= b THEN a ELSE b

\* The form with an odd mantissa.
RECURSIVE FCanon(_, _)
FCanon(m, e) ==
  IF m = 0 THEN [m |-> 0, e |-> 0]
  ELSE IF m % 65536 = 0 THEN FCanon(m \div 65536, e + 16)
  ELSE IF m % 256 = 0 THEN FCanon(m \div 256, e + 8)
  ELSE IF m % 16 = 0 THEN FCanon(m \div 16, e + 4)
  ELSE IF m % 2 = 0 THEN FCanon(m \div 2, e + 1)
  ELSE [m |-> m, e |-> e]

\* The float nearest to sign * X * 2^x (0 <= X < 2^31), ties to even.
FRound(sign, X, x) ==
  LET r == Max(Max(BitLen(X) - FLT_MANT_BITS, FLT_MIN_EXP - x), 0)
  IN  IF r = 0 THEN FCanon(sign * X, x)
      ELSE IF r > 31 THEN FCanon(0, 0)
      ELSE IF r = 31 THEN (IF X > Pow2(30) THEN FCanon(sign, x + 31) ELSE FCanon(0, 0))
      ELSE LET q    == X \div Pow2(r)
               rem  == X % Pow2(r)
               half == Pow2(r - 1)
               up   == rem > half \/ (rem = half /\ q % 2 = 1)
           IN  FCanon(sign * (IF up THEN q + 1 ELSE q), x + r)

FromInt(i) == FCanon(i, 0)

FNeg(a) == [m |-> -(a.m), e |-> a.e]

\* a * 2^k.
FScale2(a, k) == IF a.m = 0 THEN a ELSE [m |-> a.m, e |-> a.e + k]

\* |f| in units of 2^u; bits shifted out are kept as a sticky lowest bit.
FUnits(f, u) ==
  IF f.e >= u THEN Abs(f.m) * Pow2(f.e - u)
  ELSE LET s == u - f.e
       IN  IF s > 30 THEN 1
           ELSE LET q == Abs(f.m) \div Pow2(s)
                IN  IF Abs(f.m) % Pow2(s) # 0 /\ q % 2 = 0 THEN q + 1 ELSE q

FSign(f) == IF f.m < 0 THEN -1 ELSE 1

FAdd(a, b) ==
  IF a.m = 0 THEN b
  ELSE IF b.m = 0 THEN a
  ELSE LET top == Max(a.e + BitLen(Abs(a.m)), b.e + BitLen(Abs(b.m)))
           u   == Max(top - 28, FLT_MIN_EXP)
           sum == FSign(a) * FUnits(a, u) + FSign(b) * FUnits(b, u)
       IN  FRound(IF sum < 0 THEN -1 ELSE 1, Abs(sum), u)

FSub(a, b) == FAdd(a, FNeg(b))

\* a / (n * 2^j) for an odd integer n below 2^13: the 24-bit mantissa is
\* divided in two stages to a 28-bit quotient with a sticky lowest bit, which
\* is rounded once.
FDivOdd(a, n, j) ==
  IF a.m = 0 THEN a
  ELSE LET k   == FLT_MANT_BITS - BitLen(Abs(a.m))
           M   == Abs(a.m) * Pow2(k)
           q1  == M \div n
           t   == 28 - BitLen(q1)
           num == (M % n) * Pow2(t)
           q   == q1 * Pow2(t) + (num \div n)
           X   == IF num % n # 0 /\ q % 2 = 0 THEN q + 1 ELSE q
       IN  FRound(FSign(a), X, a.e - k - t - j)

\* The exponent of the largest power of 2 dividing n.
RECURSIVE TwoPart(_)
TwoPart(n) == IF n % 2 = 0 THEN 1 + TwoPart(n \div 2) ELSE 0

\* a / n for an integer n in 1..8191 (the step counts and 60), converted to
\* float exactly.
FDivInt(a, n) == FDivOdd(a, n \div Pow2(TwoPart(n)), TwoPart(n))

\* a * 255.0f: the exact product 256a - a, rounded once.
FMul255(a) == FSub(FScale2(a, 8), a)

FLess(a, b) == FSub(a, b).m < 0

\* (int) f: truncation toward zero, for |f| < 2^15.
FTrunc(f) ==
  IF f.e >= 0 THEN f.m * Pow2(f.e)
  ELSE IF -(f.e) > 30 THEN 0
  ELSE FSign(f) * (Abs(f.m) \div Pow2(-(f.e)))

\* ---------------------------------------------------------------- variables

VARIABLES
  qPc,        \* "idle" before the call, "done" after quantizeToScale returned
  qSemi,      \* the argument semi (times SEMI_DEN)
  qAdc,       \* the ADC reading the argument came from, -1 if none
  qMask,      \* the argument mask
  qRounded,   \* the int the float-to-int conversion produced
  qResult,    \* the returned semitone
  qFound      \* TRUE when the return was inside the radius loop

qvars == << qPc, qSemi, qAdc, qMask, qRounded, qResult, qFound >>

VARIABLES
  ch1, ch2,            \* ChannelState: [currentSemi, targetSemi], floats
  currentScaleIndex,
  bypass,
  lastButtonReading,
  lastButtonMillis,
  ledOnPhase,
  ledInSequence,
  ledBlinkCount,
  ledLastMillis,
  ledPinLevel,         \* the level last written to ledPin
  cvOut1, cvOut2,      \* the duty cycles last written to cvOut1Pin, cvOut2Pin
  millis               \* millis() at the start of the last tick; the clock is
                       \* followed far short of its 2^32 wrap, so the unsigned
                       \* differences of the code are plain differences

progvars == << ch1, ch2, currentScaleIndex, bypass, lastButtonReading,
               lastButtonMillis, ledOnPhase, ledInSequence, ledBlinkCount,
               ledLastMillis, ledPinLevel, cvOut1, cvOut2, millis >>

\* History of what the loop has observed and written, for stating properties.
VARIABLES
  rawReading,       \* the button level read on the last tick (HIGH before any)
  toggleMillis,     \* updateButton's clock when bypass last changed, -1 if never
  edgeMillis,       \* updateButton's clock at the last raw falling edge, -1 if none
  edgeAccepted,     \* whether bypass changed on the tick of that edge
  pressPastWindow,  \* the latest press was read LOW on some tick at which more
                    \* than BUTTON_DEBOUNCE_MS had passed since the last toggle
  pressToggled,     \* bypass changed on some tick of the latest press
  ledRises,         \* LOW-to-HIGH changes of ledPin since the last arming
  ledFalls,         \* HIGH-to-LOW changes of ledPin since the last arming
  buttonNow,        \* updateButton's clock on the last tick (0 before any)
  readings          \* the analog readings of the last tick: scalePot,
                    \* portamentoRaw, transposeRaw, cv1Adc, cv2Adc

histvars == << rawReading, toggleMillis, edgeMillis, edgeAccepted, pressPastWindow,
               pressToggled, ledRises, ledFalls, buttonNow, readings >>

VARIABLES
  pPc,        \* "idle" before the first call, "done" after applyPortamento returned
  pCurrent,   \* the argument current, a float
  pTarget,    \* the argument target, a float
  pRaw,       \* the argument portRaw
  pResult     \* the returned value, a float

pvars == << pPc, pCurrent, pTarget, pRaw, pResult >>

\* A second copy of the program state, stepped with the same readings and
\* the same clock.
VARIABLES twin

\* The Euclidean sequencer (steplengtheuclidian.ino).
VARIABLES
  triggerStartMillis,
  currentStep,
  isTriggering,
  lastTriggerInputState,
  currentStepLength,
  lastStepLength,
  modeChangeLedStartMillis,
  isModeChangeLedOn,
  disableOutputLed,
  lastResetDebounceTime,
  lastResetInputState,
  outputPin,              \* the level last written to outputPin
  extraLedPin,            \* the level last written to extraLedPin
  seqMillis               \* millis() in the last pass of loop()

\* History of the sequencer, for stating properties.
VARIABLES
  seqReadings,   \* the analog readings of the last pass: stepMode, pot, hitCv, rot
  access,        \* the last pass: whether it saw a clock edge and, if so,
                 \* currentStep before it, the step length, selectedHits and
                 \* rotatedStep computed, whether the table was looked up and
                 \* the step advanced, whether the pass accepted a reset
  edgeLog,       \* shouldTrigger of the latest consecutive edges, at most
                 \* currentStepLength of them, that were handled with the same
                 \* step length, hits and rotation, currentStep below the step
                 \* length, the indicator off and no reset since
  logSel         \* step length, hits and rotation of the edges in edgeLog

seqvars == << triggerStartMillis, currentStep, isTriggering, lastTriggerInputState,
              currentStepLength, lastStepLength, modeChangeLedStartMillis,
              isModeChangeLedOn, disableOutputLed, lastResetDebounceTime,
              lastResetInputState, outputPin, extraLedPin, seqMillis,
              seqReadings, access, edgeLog, logSel >>

\* The Eurorack-to-MS-20 converter (eurorack2ms.ino).
VARIABLES
  lastVTrigState,
  trigOutStart,
  ledOffTime,
  trigOutState,
  sTrigOutPin,   \* the level last written to sTrigOutPin
  flashLedPin,   \* the level last written to ledPin
  duty,          \* the value last passed to analogWrite(cvOutPin, ...)
  convMillis,    \* millis() in the last pass of loop()
  product,       \* history: out * scale of the last pass, as a number
  convIn         \* history: adc, out, scale and offset of the last pass

convvars == << lastVTrigState, trigOutStart, ledOffTime, trigOutState,
               sTrigOutPin, flashLedPin, duty, convMillis, product, convIn >>

vars == << qvars, pvars, progvars, histvars, twin, seqvars, convvars >>

\* ----------------------------------------------- quantizeToScale in isolation

AllMasks == { m \in [1..12 -> {0, 1}] : \E i \in 1..12 : m[i] = 1 }

ShippedMasks == { ScaleMask(k) : k \in 0..(NUM_SCALES - 1) }

\* One value below and one above the int range.
HugeSemis == { (INT_MIN - 1) * SEMI_DEN, (INT_MAX + 1) * SEMI_DEN }

DirectSemis == { n * SEMI_DEN : n \in (-BelowRange)..(MAX_SEMITONES_INT + AboveRange) } \cup HugeSemis

QIdle ==
  /\ qPc = "idle"
  /\ qSemi = 0
  /\ qAdc = -1
  /\ qMask = ScaleMask(0)
  /\ qRounded = 0
  /\ qResult = 0
  /\ qFound = TRUE

Quantize(semi, adc, mask) ==
  /\ \E r \in RoundOutcomes(semi) :
       LET res == QuantizeNote(r, mask)
       IN  /\ qRounded' = r
           /\ qResult' = res.note
           /\ qFound' = res.found
  /\ qSemi' = semi
  /\ qAdc' = adc
  /\ qMask' = mask
  /\ qPc' = "done"

\* loop() lines 332-337: a CV reading quantized against a shipped scale.
QuantizeAdc ==
  /\ qPc = "idle"
  /\ \E adc \in 0..ADC_MAX, k \in 0..(NUM_SCALES - 1) :
       Quantize(adcToSemitone(adc), adc, ScaleMask(k))

\* quantizeToScale called on an arbitrary value with an arbitrary mask.
QuantizeDirect ==
  /\ qPc = "idle"
  /\ \E semi \in DirectSemis, m \in AllMasks : Quantize(semi, -1, m)

\* quantizeToScale called on an arbitrary value with a shipped mask.
QuantizeShipped ==
  /\ qPc = "idle"
  /\ \E semi \in DirectSemis, k \in 0..(NUM_SCALES - 1) :
       Quantize(semi, -1, ScaleMask(k))

\* ------------------------------------------------------- portamento, PWM

\* The step count of line 177.
PortSteps(portRaw) == 1 + CDiv(portRaw, PORT_DIVISOR)

\* Mutant of applyPortamento: the snappy case keeps the current value.
applyPortamentoSnappyHolds(current, target, portRaw) ==
  IF portRaw < SNAPPY_BELOW THEN current
  ELSE LET steps == PortSteps(portRaw)
           delta == FSub(target, current)
       IN  FAdd(current, FDivInt(delta, steps))

\* Mutant of applyPortamento: the step is subtracted.
applyPortamentoAway(current, target, portRaw) ==
  IF portRaw < SNAPPY_BELOW THEN target
  ELSE LET steps == PortSteps(portRaw)
           delta == FSub(target, current)
       IN  FSub(current, FDivInt(delta, steps))

applyPortamento(current, target, portRaw) ==
  IF portRaw < SNAPPY_BELOW THEN target
  ELSE LET steps == PortSteps(portRaw)
           delta == FSub(target, current)
       IN  FAdd(current, FDivInt(delta, steps))

FHalf == [m |-> 1, e |-> -1]

semitoneToPwm(semi) ==
  LET top   == FromInt(MAX_SEMITONES_INT)
      s     == IF FLess(semi, FromInt(0)) THEN FromInt(0)
               ELSE IF FLess(top, semi) THEN top ELSE semi
      value == FTrunc(FAdd(FMul255(FDivInt(s, MAX_SEMITONES_INT)), FHalf))
  IN  Clamp(value, 0, PWM_MAX)

\* ---------------------------------------------- applyPortamento in isolation

PIdle ==
  /\ pPc = "idle"
  /\ pCurrent = FromInt(0)
  /\ pTarget = FromInt(0)
  /\ pRaw = 0
  /\ pResult = FromInt(0)

Portamento(current, target, portRaw) ==
  /\ pResult' = applyPortamento(current, target, portRaw)
  /\ pCurrent' = current
  /\ pTarget' = target
  /\ pRaw' = portRaw
  /\ pPc' = "done"

\* Values currentSemi can hold: 0, 22.5, 30, 60, the float below 60, the
\* smallest positive float.
PortCurrents ==
  { FromInt(0), [m |-> 45, e |-> -1], FromInt(30), FromInt(MAX_SEMITONES_INT),
    [m |-> 15728639, e |-> -18], [m |-> 1, e |-> FLT_MIN_EXP] }

\* targetSemi is (float)qTrans, an integer in 0..60 (line 343).
PortTargets == { FromInt(t) : t \in { 0, 1, 32, 59, MAX_SEMITONES_INT } }

PortRaws == (-BelowRange)..(ADC_MAX + AboveRange)

\* loop() line 348 with any portamento pot reading.
PortamentoCall ==
  /\ pPc = "idle"
  /\ \E current \in PortCurrents, target \in PortTargets, portRaw \in PortRaws :
       Portamento(current, target, portRaw)

\* A glide starts at a note and heads for another note; the pot selects 1, 2,
\* 3, 16 or 32 steps.
GlideNotes == { FromInt(t) : t \in { 0, 7, 32, MAX_SEMITONES_INT } }

GlideRaws == { SNAPPY_BELOW, 32, 64, 500, ADC_MAX }

GlideStart ==
  /\ pPc = "idle"
  /\ \E current \in GlideNotes, target \in GlideNotes, portRaw \in GlideRaws :
       Portamento(current, target, portRaw)

\* The next tick of the same glide: line 348 feeds the result back in, with
\* the same target and the same pot reading.
GlideAgain ==
  /\ pPc = "done"
  /\ Portamento(pResult, pTarget, pRaw)

\* ------------------------------------------------------ scale-change blink

Led == [onPhase |-> ledOnPhase, inSequence |-> ledInSequence,
        blinkCount |-> ledBlinkCount, lastMillis |-> ledLastMillis,
        pin |-> ledPinLevel]

\* Mutant of startScaleBlink: the lamp is not switched off.
startScaleBlinkKeepsLamp(L, scaleIndex, now) ==
  LET count == (scaleIndex + 1) % 256
  IN  IF count = 0
      THEN [L EXCEPT !.inSequence = FALSE]
      ELSE [onPhase |-> FALSE, inSequence |-> TRUE, blinkCount |-> count,
            lastMillis |-> now, pin |-> L.pin]

\* Mutant of startScaleBlink: a sequence that is still running is not restarted.
startScaleBlinkNoRestart(L, scaleIndex, now) ==
  LET count == (scaleIndex + 1) % 256
  IN  IF L.inSequence THEN L
      ELSE IF count = 0
      THEN [L EXCEPT !.inSequence = FALSE, !.pin = LOW]
      ELSE [onPhase |-> FALSE, inSequence |-> TRUE, blinkCount |-> count,
            lastMillis |-> now, pin |-> LOW]

\* Mutant of startScaleBlink: the count is scaleIndex instead of scaleIndex + 1.
startScaleBlinkOffByOne(L, scaleIndex, now) ==
  LET count == scaleIndex % 256
  IN  IF count = 0
      THEN [L EXCEPT !.inSequence = FALSE, !.pin = LOW]
      ELSE [onPhase |-> FALSE, inSequence |-> TRUE, blinkCount |-> count,
            lastMillis |-> now, pin |-> LOW]

startScaleBlink(L, scaleIndex, now) ==
  LET count == (scaleIndex + 1) % 256
  IN  IF count = 0
      THEN [L EXCEPT !.inSequence = FALSE, !.pin = LOW]
      ELSE [onPhase |-> FALSE, inSequence |-> TRUE, blinkCount |-> count,
            lastMillis |-> now, pin |-> LOW]

\* Mutant of updateLedBlink: the count is not decremented.
updateLedBlinkNoDecrement(L, now) ==
  IF ~L.inSequence THEN L
  ELSE IF now - L.lastMillis < LED_INTERVAL_MS THEN L
  ELSE IF ~L.onPhase
  THEN [L EXCEPT !.lastMillis = now, !.pin = HIGH, !.onPhase = TRUE]
  ELSE LET c == L.blinkCount
       IN  [L EXCEPT !.lastMillis = now, !.pin = LOW, !.onPhase = FALSE,
                     !.blinkCount = c,
                     !.inSequence = IF c = 0 THEN FALSE ELSE L.inSequence]

updateLedBlink(L, now) ==
  IF ~L.inSequence THEN L
  ELSE IF now - L.lastMillis < LED_INTERVAL_MS THEN L
  ELSE IF ~L.onPhase
  THEN [L EXCEPT !.lastMillis = now, !.pin = HIGH, !.onPhase = TRUE]
  ELSE LET c == IF L.blinkCount > 0 THEN L.blinkCount - 1 ELSE L.blinkCount
       IN  [L EXCEPT !.lastMillis = now, !.pin = LOW, !.onPhase = FALSE,
                     !.blinkCount = c,
                     !.inSequence = IF c = 0 THEN FALSE ELSE L.inSequence]

\* ----------------------------------------------------------- bypass button

Button == [bypass |-> bypass, lastButtonReading |-> lastButtonReading,
           lastButtonMillis |-> lastButtonMillis, ch1 |-> ch1, ch2 |-> ch2]

Resync(ch) == [ch EXCEPT !.currentSemi = ch.targetSemi]

\* Mutant of updateButton: no debounce window.
updateButtonNoDebounce(B, reading, now) ==
  IF B.lastButtonReading = HIGH /\ reading = LOW
  THEN [bypass |-> ~B.bypass,
        lastButtonReading |-> reading,
        lastButtonMillis |-> now,
        ch1 |-> IF B.bypass THEN Resync(B.ch1) ELSE B.ch1,
        ch2 |-> IF B.bypass THEN Resync(B.ch2) ELSE B.ch2]
  ELSE [B EXCEPT !.lastButtonReading = reading]

\* Mutant of updateButton: the channels are resynchronised on every toggle.
updateButtonAlwaysResync(B, reading, now) ==
  IF now - B.lastButtonMillis > BUTTON_DEBOUNCE_MS
     /\ B.lastButtonReading = HIGH /\ reading = LOW
  THEN [bypass |-> ~B.bypass,
        lastButtonReading |-> reading,
        lastButtonMillis |-> now,
        ch1 |-> Resync(B.ch1),
        ch2 |-> Resync(B.ch2)]
  ELSE [B EXCEPT !.lastButtonReading = reading]

\* Mutant of updateButton: a pressed level toggles, whatever the level before.
updateButtonOnLevel(B, reading, now) ==
  IF now - B.lastButtonMillis > BUTTON_DEBOUNCE_MS /\ reading = LOW
  THEN [bypass |-> ~B.bypass,
        lastButtonReading |-> reading,
        lastButtonMillis |-> now,
        ch1 |-> IF B.bypass THEN Resync(B.ch1) ELSE B.ch1,
        ch2 |-> IF B.bypass THEN Resync(B.ch2) ELSE B.ch2]
  ELSE [B EXCEPT !.lastButtonReading = reading]

\* Mutant of updateButton: the level is recorded only once the window is over.
updateButtonLateRecord(B, reading, now) ==
  IF now - B.lastButtonMillis > BUTTON_DEBOUNCE_MS
  THEN IF B.lastButtonReading = HIGH /\ reading = LOW
       THEN [bypass |-> ~B.bypass,
             lastButtonReading |-> reading,
             lastButtonMillis |-> now,
             ch1 |-> IF B.bypass THEN Resync(B.ch1) ELSE B.ch1,
             ch2 |-> IF B.bypass THEN Resync(B.ch2) ELSE B.ch2]
       ELSE [B EXCEPT !.lastButtonReading = reading]
  ELSE B

updateButton(B, reading, now) ==
  IF now - B.lastButtonMillis > BUTTON_DEBOUNCE_MS
     /\ B.lastButtonReading = HIGH /\ reading = LOW
  THEN [bypass |-> ~B.bypass,
        lastButtonReading |-> reading,
        lastButtonMillis |-> now,
        ch1 |-> IF B.bypass THEN Resync(B.ch1) ELSE B.ch1,
        ch2 |-> IF B.bypass THEN Resync(B.ch2) ELSE B.ch2]
  ELSE [B EXCEPT !.lastButtonReading = reading]

\* ------------------------------------------------------------ setup, loop

Setup ==
  /\ ch1 = [currentSemi |-> FromInt(0), targetSemi |-> FromInt(0)]
  /\ ch2 = [currentSemi |-> FromInt(0), targetSemi |-> FromInt(0)]
  /\ currentScaleIndex = 0
  /\ bypass = FALSE
  /\ lastButtonReading = HIGH
  /\ lastButtonMillis = 0
  /\ \E L \in { startScaleBlink([onPhase |-> FALSE, inSequence |-> FALSE,
                                  blinkCount |-> 0, lastMillis |-> 0,
                                  pin |-> LOW], 0, 0) } :
       /\ ledOnPhase = L.onPhase
       /\ ledInSequence = L.inSequence
       /\ ledBlinkCount = L.blinkCount
       /\ ledLastMillis = L.lastMillis
       /\ ledPinLevel = L.pin
  /\ cvOut1 = 0
  /\ cvOut2 = 0
  /\ millis = 0
  /\ rawReading = HIGH
  /\ toggleMillis = -1
  /\ edgeMillis = -1
  /\ edgeAccepted = FALSE
  /\ pressPastWindow = FALSE
  /\ pressToggled = FALSE
  /\ ledRises = 0
  /\ ledFalls = 0
  /\ buttonNow = 0
  /\ readings = [scalePot |-> 0, portamentoRaw |-> 0, transposeRaw |-> 0,
                 cv1Adc |-> 0, cv2Adc |-> 0]

\* Mutant of QuantizedChannel: the transposed note is not clamped.
QuantizedChannelNoClamp(ch, cvAdc, scaleMask, transpose, portamentoRaw) ==
  LET semi   == adcToSemitone(cvAdc)
      q      == quantizeToScale(semi, scaleMask)
      target == FromInt(q + transpose)
      cur    == applyPortamento(ch.currentSemi, target, portamentoRaw)
  IN  [ch |-> [currentSemi |-> cur, targetSemi |-> target],
       pwm |-> semitoneToPwm(cur)]

\* The quantized path of loop() for one channel (lines 332-366): the new
\* channel state and the duty cycle written.
QuantizedChannel(ch, cvAdc, scaleMask, transpose, portamentoRaw) ==
  LET semi   == adcToSemitone(cvAdc)
      q      == quantizeToScale(semi, scaleMask)
      qTrans == Clamp(q + transpose, 0, MAX_SEMITONES_INT)
      target == FromInt(qTrans)
      cur    == applyPortamento(ch.currentSemi, target, portamentoRaw)
  IN  [ch |-> [currentSemi |-> cur, targetSemi |-> target],
       pwm |-> semitoneToPwm(cur)]

\* Mutant of BypassedChannel: the mapped reading is not clamped.
BypassedChannelNoClamp(ch, cvAdc) ==
  [ch |-> ch, pwm |-> map(cvAdc, 0, ADC_MAX, 0, PWM_MAX)]

\* The pass-through path of loop() for one channel (lines 314-329).
BypassedChannel(ch, cvAdc) ==
  [ch |-> ch, pwm |-> Clamp(map(cvAdc, 0, ADC_MAX, 0, PWM_MAX), 0, PWM_MAX)]

\* Mutant of OutputBranch: the two paths are swapped.
OutputBranchSwapped(flag, ch, cvAdc, scaleMask, transpose, portamentoRaw) ==
  IF ~flag THEN BypassedChannel(ch, cvAdc)
  ELSE QuantizedChannel(ch, cvAdc, scaleMask, transpose, portamentoRaw)

\* The branch of loop() line 312 for one channel, on the value of bypass that
\* updateButton (line 306) left.
OutputBranch(flag, ch, cvAdc, scaleMask, transpose, portamentoRaw) ==
  IF flag THEN BypassedChannel(ch, cvAdc)
  ELSE QuantizedChannel(ch, cvAdc, scaleMask, transpose, portamentoRaw)

\* Mutant of ScaleIndexOf: the mapped reading is not clamped.
ScaleIndexNoClamp(scalePot) == map(scalePot, 0, ADC_MAX, 0, NUM_SCALES - 1)

\* The scale index of loop() lines 288-293.
ScaleIndexOf(scalePot) ==
  Clamp(map(scalePot, 0, ADC_MAX, 0, NUM_SCALES - 1), 0, NUM_SCALES - 1)

\* Mutant of MaskIndex: the index stored before this tick is used.
MaskIndexStale(stored, computed) == stored

\* The index line 300 looks up: currentScaleIndex after lines 295-297 have
\* stored the index computed in this tick.
MaskIndex(stored, computed) == computed

\* What line 300 can read: the mask at index k, and outside the table
\* whatever the neighbouring memory holds (here: all clear or all set).
ScaleMaskRead(k) ==
  IF k \in 0..(NUM_SCALES - 1) THEN { ScaleMask(k) }
  ELSE { [i \in 1..12 |-> 0], [i \in 1..12 |-> 1] }

\* The program state as one record.
Prog ==
  [ch1 |-> ch1, ch2 |-> ch2, currentScaleIndex |-> currentScaleIndex,
   bypass |-> bypass, lastButtonReading |-> lastButtonReading,
   lastButtonMillis |-> lastButtonMillis, led |-> Led,
   cvOut1 |-> cvOut1, cvOut2 |-> cvOut2]

\* Mutant of WithLed: the indicator also writes the bypass flag.
WithLedAndFlag(P, L) == [P EXCEPT !.led = L, !.bypass = L.inSequence]

\* What startScaleBlink (lines 183-196) and updateLedBlink (lines 199-226)
\* write: the four indicator variables and ledPin, nothing else.
WithLed(P, L) == [P EXCEPT !.led = L]

\* The statements of loop() on program state P, with millis() read as tArm
\* in startScaleBlink, tButton in updateButton and tLed in updateLedBlink:
\* the states it can end in, each with the indicator state after line 298.
LoopStep(P, tArm, tButton, tLed, scalePot, portamentoRaw, transposeRaw, reading, cv1Adc, cv2Adc) ==
  LET newScaleIndex == ScaleIndexOf(scalePot)
      changed   == newScaleIndex # P.currentScaleIndex
      P1        == IF changed
                   THEN WithLed([P EXCEPT !.currentScaleIndex = newScaleIndex],
                                startScaleBlink(P.led, newScaleIndex, tArm))
                   ELSE P
      transpose == map(transposeRaw, 0, ADC_MAX, -12, 12)
      B         == updateButton([bypass |-> P1.bypass,
                                 lastButtonReading |-> P1.lastButtonReading,
                                 lastButtonMillis |-> P1.lastButtonMillis,
                                 ch1 |-> P1.ch1, ch2 |-> P1.ch2],
                                reading, tButton)
      ledDone   == updateLedBlink(P1.led, tLed)
      Done(o1, o2) ==
        [prog |-> WithLed([P1 EXCEPT !.bypass = B.bypass,
                                     !.lastButtonReading = B.lastButtonReading,
                                     !.lastButtonMillis = B.lastButtonMillis,
                                     !.ch1 = o1.ch, !.ch2 = o2.ch,
                                     !.cvOut1 = o1.pwm, !.cvOut2 = o2.pwm],
                          ledDone),
         ledArmed |-> P1.led]
  IN  { Done(OutputBranch(B.bypass, B.ch1, cv1Adc, scaleMask, transpose, portamentoRaw),
             OutputBranch(B.bypass, B.ch2, cv2Adc, scaleMask, transpose, portamentoRaw)) :
        scaleMask \in ScaleMaskRead(MaskIndex(P.currentScaleIndex, newScaleIndex)) }

\* One pass of loop().  The tick starts dt ms after the previous one started;
\* millis() is read in startScaleBlink, then sk1 ms later in updateButton and
\* sk2 ms after that in updateLedBlink (dt >= sk1 + sk2 keeps the clock
\* monotonic).
LoopTick(dt, sk1, sk2, scalePot, portamentoRaw, transposeRaw, reading, cv1Adc, cv2Adc) ==
  LET tArm      == millis + dt
      tButton   == tArm + sk1
      tLed      == tButton + sk2
      \* history
      changed   == ScaleIndexOf(scalePot) # currentScaleIndex
      fell      == rawReading = HIGH /\ reading = LOW
      past      == reading = LOW
                   /\ tButton - lastButtonMillis > BUTTON_DEBOUNCE_MS
  IN  \E N \in LoopStep(Prog, tArm, tButton, tLed, scalePot, portamentoRaw,
                        transposeRaw, reading, cv1Adc, cv2Adc) :
      \E B \in { N.prog } :
      \E ledArmed \in { N.ledArmed } :
      \E ledDone \in { N.prog.led } :
      /\ currentScaleIndex' = B.currentScaleIndex
      /\ bypass' = B.bypass
      /\ lastButtonReading' = B.lastButtonReading
      /\ lastButtonMillis' = B.lastButtonMillis
      /\ ch1' = B.ch1
      /\ ch2' = B.ch2
      /\ cvOut1' = B.cvOut1
      /\ cvOut2' = B.cvOut2
      /\ ledOnPhase' = ledDone.onPhase
      /\ ledInSequence' = ledDone.inSequence
      /\ ledBlinkCount' = ledDone.blinkCount
      /\ ledLastMillis' = ledDone.lastMillis
      /\ ledPinLevel' = ledDone.pin
      /\ millis' = tArm
      /\ rawReading' = reading
      /\ toggleMillis' = IF B.bypass # bypass THEN tButton ELSE toggleMillis
      /\ edgeMillis' = IF fell THEN tButton ELSE edgeMillis
      /\ edgeAccepted' = IF fell THEN B.bypass # bypass ELSE edgeAccepted
      /\ pressPastWindow' = IF fell THEN past
                            ELSE IF reading = LOW THEN pressPastWindow \/ past
                            ELSE pressPastWindow
      /\ pressToggled' = IF fell THEN B.bypass # bypass
                         ELSE IF reading = LOW
                         THEN pressToggled \/ (B.bypass # bypass)
                         ELSE pressToggled
      /\ ledRises' = (IF changed THEN 0 ELSE ledRises)
                     + (IF ledArmed.pin = LOW /\ ledDone.pin = HIGH THEN 1 ELSE 0)
      /\ ledFalls' = (IF changed THEN 0 ELSE ledFalls)
                     + (IF ledArmed.pin = HIGH /\ ledDone.pin = LOW THEN 1 ELSE 0)
      /\ buttonNow' = tButton
      /\ readings' = [scalePot |-> scalePot, portamentoRaw |-> portamentoRaw,
                      transposeRaw |-> transposeRaw, cv1Adc |-> cv1Adc,
                      cv2Adc |-> cv2Adc]

\* The seven pot positions that select the scales 0..6.
ScalePots == { 0, 171, 341, 512, 682, 853, ADC_MAX }

\* Transpose pot at its centre: map() gives 0 semitones.
TransposePots == { 512 }

Levels == { LOW, HIGH }

\* Bypass button, CV and portamento (snappy, 2 steps, 32 steps) vary; ticks
\* 16 or 31 ms apart.
BypassGaps == { 16, 31 }

BypassPorts == { 0, 40, ADC_MAX }

BypassCvs == { 0, ADC_MAX }

TickBypass ==
  \E dt \in BypassGaps, reading \in Levels, port \in BypassPorts,
     cv \in BypassCvs, transposeRaw \in TransposePots :
    /\ millis + dt <= MaxMillisBypass
    /\ LoopTick(dt, 0, 0, 0, port, transposeRaw, reading, cv, ADC_MAX - cv)
    /\ UNCHANGED << qvars, pvars, twin, seqvars, convvars >>

\* Only the bypass button varies; ticks 10 or 31 ms apart.
DebounceGaps == { 10, 31 }

TickDebounce ==
  \E dt \in DebounceGaps, sk \in 0..MaxSkew, reading \in Levels,
     transposeRaw \in TransposePots :
    /\ millis + dt <= MaxMillisDebounce
    /\ LoopTick(dt, sk, 0, 0, 0, transposeRaw, reading, 0, ADC_MAX)
    /\ UNCHANGED << qvars, pvars, twin, seqvars, convvars >>

\* Only the scale pot varies; ticks 60, 120 or 240 ms apart.
BlinkGaps == { 60, 120, 240 }

TickBlink ==
  \E dt \in BlinkGaps, sk \in 0..MaxSkew, scalePot \in ScalePots,
     transposeRaw \in TransposePots :
    /\ millis + dt <= MaxMillisBlink
    /\ LoopTick(dt, 0, sk, scalePot, 0, transposeRaw, HIGH, 0, ADC_MAX)
    /\ UNCHANGED << qvars, pvars, twin, seqvars, convvars >>

\* Readings outside what analogRead delivers, up to the ends of int: every
\* pot and both CVs vary, the button too; ticks 31 ms apart.
RangeGaps == { BUTTON_DEBOUNCE_MS + 1 }

RangeScalePots == { INT_MIN, 512, INT_MAX }

RangeTransposePots == { -100, INT_MAX }

RangePorts == { -1, 40, ADC_MAX + 1, INT_MAX }

RangeCvs == { -5, 600, ADC_MAX + 7, INT_MAX }

TickRange ==
  \E dt \in RangeGaps, reading \in Levels, scalePot \in RangeScalePots,
     port \in RangePorts, transposeRaw \in RangeTransposePots, cv \in RangeCvs :
    /\ millis + dt <= MaxMillisRange
    /\ LoopTick(dt, 0, 0, scalePot, port, transposeRaw, reading, cv, ADC_MAX + 2 - cv)
    /\ UNCHANGED << qvars, pvars, twin, seqvars, convvars >>

\* Scale pot, transpose pot (-12, -5, 0, +12 semitones), CV and button vary;
\* no glide; ticks 31 ms apart.
TargetGaps == { BUTTON_DEBOUNCE_MS + 1 }

TargetTransposePots == { 0, 300, 512, ADC_MAX }

TargetCvs == { 0, 24, 400, ADC_MAX }

TickTarget ==
  \E dt \in TargetGaps, reading \in Levels, scalePot \in ScalePots,
     transposeRaw \in TargetTransposePots, cv \in TargetCvs :
    /\ millis + dt <= MaxMillisTarget
    /\ LoopTick(dt, 0, 0, scalePot, 0, transposeRaw, reading, cv, ADC_MAX - cv)
    /\ UNCHANGED << qvars, pvars, twin, seqvars, convvars >>

\* The scale pot selects scale 0, 2 or 6 and comes to rest by
\* LastChangeMillis; ticks 60 or 240 ms apart.
LiveGaps == { 60, 240 }

LiveScalePots == { 0, 341, ADC_MAX }

TickLive ==
  \E dt \in LiveGaps, scalePot \in LiveScalePots, transposeRaw \in TransposePots :
    /\ millis + dt <= MaxMillisLive
    /\ millis + dt > LastChangeMillis => ScaleIndexOf(scalePot) = currentScaleIndex
    /\ LoopTick(dt, 0, 0, scalePot, 0, transposeRaw, HIGH, 0, ADC_MAX)
    /\ UNCHANGED << qvars, pvars, twin, seqvars, convvars >>

\* Both copies run loop() on the same readings at the same times.  Scale
\* pot (scale 0 or 2), button and CV vary, the glide takes 2 steps; ticks
\* 120 ms apart.
TwinGaps == { LED_INTERVAL_MS }

TwinScalePots == { 0, 341 }

TickTwin ==
  \E dt \in TwinGaps, reading \in Levels, scalePot \in TwinScalePots,
     cv \in BypassCvs, transposeRaw \in TransposePots :
    /\ millis + dt <= MaxMillisTwin
    /\ LoopTick(dt, 0, 0, scalePot, 40, transposeRaw, reading, cv, ADC_MAX - cv)
    /\ \E N \in LoopStep(twin, millis + dt, millis + dt, millis + dt, scalePot,
                          40, transposeRaw, reading, cv, ADC_MAX - cv) :
         twin' = N.prog
    /\ UNCHANGED << qvars, pvars, seqvars, convvars >>

\* ------------------------------------------------------ Euclidean sequencer

\* The pattern tables of steplengtheuclidian.ino: row hits + 1, column
\* step + 1.
euclidean_rhythm_5 ==
  << << 0, 0, 0, 0, 0 >>,
     << 1, 0, 0, 0, 0 >>,
     << 1, 0, 1, 0, 0 >>,
     << 1, 0, 1, 0, 1 >>,
     << 1, 1, 1, 0, 1 >>,
     << 1, 1, 1, 1, 1 >> >>

euclidean_rhythm_6 ==
  << << 0, 0, 0, 0, 0, 0 >>,
     << 1, 0, 0, 0, 0, 0 >>,
     << 1, 0, 0, 1, 0, 0 >>,
     << 1, 0, 1, 0, 1, 0 >>,
     << 1, 1, 0, 1, 1, 0 >>,
     << 1, 1, 1, 1, 1, 0 >>,
     << 1, 1, 1, 1, 1, 1 >> >>

euclidean_rhythm_7 ==
  << << 0, 0, 0, 0, 0, 0, 0 >>,
     << 1, 0, 0, 0, 0, 0, 0 >>,
     << 1, 0, 0, 1, 0, 0, 0 >>,
     << 1, 0, 1, 0, 1, 0, 0 >>,
     << 1, 0, 1, 0, 1, 0, 1 >>,
     << 1, 1, 0, 1, 1, 0, 1 >>,
     << 1, 1, 1, 1, 1, 1, 0 >>,
     << 1, 1, 1, 1, 1, 1, 1 >> >>

euclidean_rhythm ==
  << << 0, 0, 0, 0, 0, 0, 0, 0 >>,
     << 1, 0, 0, 0, 0, 0, 0, 0 >>,
     << 1, 0, 0, 0, 1, 0, 0, 0 >>,
     << 1, 0, 1, 0, 0, 1, 0, 0 >>,
     << 1, 0, 1, 0, 1, 0, 1, 0 >>,
     << 1, 1, 0, 1, 1, 0, 1, 0 >>,
     << 1, 1, 1, 0, 1, 1, 1, 0 >>,
     << 1, 1, 1, 1, 1, 1, 1, 0 >>,
     << 1, 1, 1, 1, 1, 1, 1, 1 >> >>

euclidean_rhythm_12 ==
  << << 0, 0, 0, 0, 0, 0, 0, 0, 0, 0, 0, 0 >>,
     << 1, 0, 0, 0, 0, 0, 0, 0, 0, 0, 0, 0 >>,
     << 1, 0, 0, 0, 0, 0, 1, 0, 0, 0, 0, 0 >>,
     << 1, 0, 0, 0, 1, 0, 0, 0, 1, 0, 0, 0 >>,
     << 1, 0, 0, 1, 0, 0, 1, 0, 0, 1, 0, 0 >>,
     << 1, 0, 1, 0, 1, 0, 0, 1, 0, 1, 0, 0 >>,
     << 1, 0, 1, 0, 1, 0, 1, 0, 1, 0, 1, 0 >>,
     << 1, 1, 0, 1, 0, 1, 1, 0, 1, 0, 1, 0 >>,
     << 1, 1, 0, 1, 1, 0, 1, 1, 0, 1, 1, 0 >>,
     << 1, 1, 1, 0, 1, 1, 1, 0, 1, 1, 1, 0 >>,
     << 1, 1, 1, 1, 1, 0, 1, 1, 1, 1, 1, 0 >>,
     << 1, 1, 1, 1, 1, 1, 1, 1, 1, 1, 1, 0 >>,
     << 1, 1, 1, 1, 1, 1, 1, 1, 1, 1, 1, 1 >> >>

euclidean_rhythm_16 ==
  << << 0, 0, 0, 0, 0, 0, 0, 0, 0, 0, 0, 0, 0, 0, 0, 0 >>,
     << 1, 0, 0, 0, 0, 0, 0, 0, 0, 0, 0, 0, 0, 0, 0, 0 >>,
     << 1, 0, 0, 0, 0, 0, 0, 0, 1, 0, 0, 0, 0, 0, 0, 0 >>,
     << 1, 0, 0, 0, 0, 1, 0, 0, 0, 0, 1, 0, 0, 0, 0, 0 >>,
     << 1, 0, 0, 0, 1, 0, 0, 0, 1, 0, 0, 0, 1, 0, 0, 0 >>,
     << 1, 0, 0, 1, 0, 0, 1, 0, 0, 1, 0, 0, 1, 0, 0, 0 >>,
     << 1, 0, 1, 0, 0, 1, 0, 0, 1, 0, 1, 0, 0, 1, 0, 0 >>,
     << 1, 0, 1, 0, 1, 0, 1, 0, 0, 1, 0, 1, 0, 1, 0, 0 >>,
     << 1, 0, 1, 0, 1, 0, 1, 0, 1, 0, 1, 0, 1, 0, 1, 0 >>,
     << 1, 1, 0, 1, 0, 1, 0, 1, 1, 0, 1, 0, 1, 0, 1, 0 >>,
     << 1, 1, 0, 1, 1, 0, 1, 0, 1, 1, 0, 1, 1, 0, 1, 0 >>,
     << 1, 1, 1, 0, 1, 1, 0, 1, 1, 0, 1, 1, 0, 1, 1, 0 >>,
     << 1, 1, 1, 0, 1, 1, 1, 0, 1, 1, 1, 0, 1, 1, 1, 0 >>,
     << 1, 1, 1, 1, 1, 0, 1, 1, 1, 1, 0, 1, 1, 1, 1, 0 >>,
     << 1, 1, 1, 1, 1, 1, 1, 0, 1, 1, 1, 1, 1, 1, 1, 0 >>,
     << 1, 1, 1, 1, 1, 1, 1, 1, 1, 1, 1, 1, 1, 1, 1, 0 >>,
     << 1, 1, 1, 1, 1, 1, 1, 1, 1, 1, 1, 1, 1, 1, 1, 1 >> >>

triggerTime == 10

resetDebounceDelay == 50

Min(a, b) == IF a <= b THEN a ELSE b

getStepLength(analogValue) ==
  IF analogValue < 170 THEN 5
  ELSE IF analogValue < 340 THEN 6
  ELSE IF analogValue < 511 THEN 7
  ELSE IF analogValue < 682 THEN 8
  ELSE IF analogValue < 853 THEN 12
  ELSE 16

\* ledDuration of line 165.
LedDuration(stepLength) == IF stepLength >= 12 THEN 1000 ELSE 500

\* selectedHits of lines 174-177 and rotation of lines 180-181.
SelectedHits(potRaw, hitCvRaw, stepLength) ==
  map(Min(potRaw + 5 + hitCvRaw, ADC_MAX), 0, ADC_MAX, 0, stepLength)

Rotation(rotRaw, stepLength) ==
  map(Min(rotRaw + 5, ADC_MAX), 0, ADC_MAX, 0, stepLength)

\* Mutant of RotatedStep: the step length is not added before the remainder.
RotatedStepNoWrap(step, rotation, stepLength) ==
  CMod(step - rotation, stepLength)

\* rotatedStep of line 189.
RotatedStep(step, rotation, stepLength) ==
  CMod(step - rotation + stepLength, stepLength)

\* Mutant of NextStep: the step advances by two.
NextStepByTwo(step, stepLength) == CMod(step + 2, stepLength)

\* The advance of line 230.
NextStep(step, stepLength) == CMod(step + 1, stepLength)

PatternTable(stepLength) ==
  IF stepLength = 5 THEN euclidean_rhythm_5
  ELSE IF stepLength = 6 THEN euclidean_rhythm_6
  ELSE IF stepLength = 7 THEN euclidean_rhythm_7
  ELSE IF stepLength = 8 THEN euclidean_rhythm
  ELSE IF stepLength = 12 THEN euclidean_rhythm_12
  ELSE euclidean_rhythm_16

\* The values shouldTrigger can take in lines 193-220.  A column index
\* outside the row reads whatever lies next to the table: either value.
ShouldTrigger(stepLength, selectedHits, rotatedStep) ==
  IF selectedHits > stepLength THEN { FALSE }
  ELSE IF selectedHits \in 0..stepLength /\ rotatedStep \in 0..(stepLength - 1)
  THEN { PatternTable(stepLength)[selectedHits + 1][rotatedStep + 1] = 1 }
  ELSE { FALSE, TRUE }

\* The value of access after a pass that saw no clock edge.
NoAccess ==
  [seen |-> FALSE, step |-> 0, len |-> 8, hits |-> 0, rotated |-> 0,
   looked |-> FALSE, reset |-> FALSE]

\* The globals as initialised (lines 112-124) and setup() (lines 138-147).
SeqSetup ==
  /\ triggerStartMillis = 0
  /\ currentStep = 0
  /\ isTriggering = FALSE
  /\ lastTriggerInputState = FALSE
  /\ currentStepLength = 8
  /\ lastStepLength = 8
  /\ modeChangeLedStartMillis = 0
  /\ isModeChangeLedOn = FALSE
  /\ disableOutputLed = FALSE
  /\ lastResetDebounceTime = 0
  /\ lastResetInputState = FALSE
  /\ outputPin = LOW
  /\ extraLedPin = LOW
  /\ seqMillis = 0
  /\ seqReadings = [stepMode |-> 0, pot |-> 0, hitCv |-> 0, rot |-> 0]
  /\ access = NoAccess
  /\ edgeLog = << >>
  /\ logSel = << 8, 0, 0 >>

\* One pass of loop() (lines 149-260), the pass starting dt ms after the
\* previous one; every millis() of the pass reads the same value.
SeqTick(dt, stepModeRaw, potRaw, hitCvRaw, rotRaw, trigLevel, resetLevel, buttonLevel) ==
  LET now       == seqMillis + dt
      len       == getStepLength(Min(stepModeRaw + 5, ADC_MAX))
      changed   == len # lastStepLength
      \* lines 155-161
      ledOn1    == changed \/ isModeChangeLedOn
      start1    == IF changed THEN now ELSE modeChangeLedStartMillis
      disable1  == changed \/ disableOutputLed
      extra1    == IF changed THEN HIGH ELSE extraLedPin
      \* lines 164-171
      expired   == ledOn1 /\ now - start1 >= LedDuration(len)
      disable2  == IF expired THEN FALSE ELSE disable1
      extra2    == IF expired THEN LOW ELSE extra1
      \* lines 174-189
      hits      == SelectedHits(potRaw, hitCvRaw, len)
      rotation  == Rotation(rotRaw, len)
      trigger   == trigLevel = HIGH
      edge      == trigger /\ ~lastTriggerInputState
      rotated   == RotatedStep(currentStep, rotation, len)
      looked    == edge /\ ~disable2
      step3     == IF looked THEN NextStep(currentStep, len) ELSE currentStep
      \* lines 235-245
      resetNow  == resetLevel = HIGH \/ buttonLevel = LOW
      accepted  == /\ resetNow /\ ~lastResetInputState
                   /\ now - lastResetDebounceTime > resetDebounceDelay
      \* history
      sel       == << len, hits, rotation >>
      counted   == looked /\ currentStep < len
      LastN(q, n) == IF Len(q) <= n THEN q ELSE SubSeq(q, Len(q) - n + 1, Len(q))
  IN  \E shouldTrigger \in (IF looked THEN ShouldTrigger(len, hits, rotated)
                            ELSE { FALSE }) :
      LET start3 == IF shouldTrigger THEN now ELSE triggerStartMillis
          trig3  == shouldTrigger \/ isTriggering
          ended  == trig3 /\ now - start3 >= triggerTime
      IN  /\ currentStepLength' = len
          /\ lastStepLength' = len
          /\ isModeChangeLedOn' = (ledOn1 /\ ~expired)
          /\ modeChangeLedStartMillis' = start1
          /\ disableOutputLed' = disable2
          /\ currentStep' = IF accepted THEN 0 ELSE step3
          /\ lastResetDebounceTime' = IF accepted THEN now ELSE lastResetDebounceTime
          /\ lastResetInputState' = resetNow
          /\ lastTriggerInputState' = trigger
          /\ triggerStartMillis' = start3
          /\ isTriggering' = (trig3 /\ ~ended)
          /\ outputPin' = IF ended THEN LOW
                          ELSE IF shouldTrigger THEN HIGH ELSE outputPin
          /\ extraLedPin' = IF ended /\ ~disable2 THEN LOW
                            ELSE IF shouldTrigger THEN HIGH ELSE extra2
          /\ seqMillis' = now
          /\ seqReadings' = [stepMode |-> stepModeRaw, pot |-> potRaw,
                             hitCv |-> hitCvRaw, rot |-> rotRaw]
          /\ access' = IF edge
                       THEN [seen |-> TRUE, step |-> currentStep, len |-> len,
                             hits |-> hits, rotated |-> rotated,
                             looked |-> looked, reset |-> accepted]
                       ELSE NoAccess
          /\ edgeLog' = IF accepted THEN << >>
                        ELSE IF ~edge THEN edgeLog
                        ELSE IF ~counted THEN << >>
                        ELSE IF sel # logSel THEN << shouldTrigger >>
                        ELSE LastN(Append(edgeLog, shouldTrigger), len)
          /\ logSel' = IF edge /\ counted THEN sel ELSE logSel

\* ------------------------------------------- Eurorack-to-MS-20 converter

TRIG_DEBOUNCE_MS == 5

LED_FLASH_MS == 40

\* pow(2.0f, vOct) with vOct = adc / 1023 * 5 (lines 61-62), as the pairs
\* << numerator, denominator >> between which the library's result lies:
\* with k the whole part and f = r / 1023 the fraction of vOct,
\* 2^k * (1 + 2f/3) <= 2^vOct <= 2^k * (1 + f); both meet where f = 0.
ExpValBounds(adc) ==
  LET k == (5 * adc) \div ADC_MAX
      r == (5 * adc) % ADC_MAX
  IN  [lo |-> (2 ^ k) * (3 * ADC_MAX + 2 * r),
       hi |-> (2 ^ k) * (3 * ADC_MAX + 3 * r),
       den |-> 3 * ADC_MAX]

\* (int)(255.0f * (expVal - 1.0f) / 31.0f + 0.5f) for expVal = num / den.
ToDuty(num, den) == (510 * (num - den) + 31 * den) \div (62 * den)

\* The values out can have after lines 61-65.
ExpOut(adc) ==
  LET B == ExpValBounds(adc)
  IN  { Clamp(o, 0, PWM_MAX) : o \in ToDuty(B.lo, B.den)..ToDuty(B.hi, B.den) }

\* a * b in int (line 69): the product when it fits 16 bits; signed overflow
\* is undefined, the build may wrap or leave either end of the range.
IntProduct(a, b) ==
  IF a * b \in INT_MIN..INT_MAX THEN { a * b }
  ELSE { ((a * b - INT_MIN) % 65536) + INT_MIN, INT_MIN, INT_MAX }

\* One pass of loop() (lines 51-101), dt ms after the previous one.
ConvTick(dt, offsetRaw, scaleRaw, trigLenRaw, adcRaw, vTrigReading) ==
  LET now     == convMillis + dt
      adc     == Clamp(adcRaw, 0, ADC_MAX)
      scale   == map(scaleRaw, 0, ADC_MAX, 128, 255)
      offset  == map(offsetRaw, 0, ADC_MAX, -64, 64)
      pulseMs == Max(map(trigLenRaw, 0, ADC_MAX, 2, 100), 2)
      \* lines 78-87
      rising  == vTrigReading = HIGH /\ lastVTrigState = LOW
      fire    == rising /\ trigOutState = 2 /\ now - trigOutStart > TRIG_DEBOUNCE_MS
      start1  == IF fire THEN now ELSE trigOutStart
      state1  == IF fire THEN 0 ELSE trigOutState
      off1    == IF fire THEN now + LED_FLASH_MS ELSE ledOffTime
      led1    == IF fire THEN HIGH ELSE flashLedPin
      \* lines 89-95
      pulseEnd == state1 = 1 /\ now - start1 >= pulseMs
      \* lines 97-100
      ledEnd  == off1 # 0 /\ now >= off1
  IN  \E out \in ExpOut(adc) : \E p \in IntProduct(out, scale) :
        /\ duty' = Clamp((p \div 256) + offset, 0, PWM_MAX)
        /\ product' = out * scale
        /\ convIn' = [adc |-> adc, out |-> out, scale |-> scale, offset |-> offset]
        /\ lastVTrigState' = vTrigReading
        /\ trigOutStart' = start1
        /\ trigOutState' = IF state1 = 0 THEN 1 ELSE IF pulseEnd THEN 2 ELSE state1
        /\ sTrigOutPin' = IF state1 = 0 THEN LOW
                          ELSE IF pulseEnd THEN HIGH ELSE sTrigOutPin
        /\ ledOffTime' = IF ledEnd THEN 0 ELSE off1
        /\ flashLedPin' = IF ledEnd THEN LOW ELSE led1
        /\ convMillis' = now

\* The globals as initialised (lines 31-34) and setup() (lines 38-49).
ConvSetup ==
  /\ lastVTrigState = LOW
  /\ trigOutStart = 0
  /\ ledOffTime = 0
  /\ trigOutState = 2
  /\ sTrigOutPin = HIGH
  /\ flashLedPin = LOW
  /\ duty = 0
  /\ convMillis = 0
  /\ product = 0
  /\ convIn = [adc |-> 0, out |-> 0, scale |-> 128, offset |-> 0]

\* --------------------------------------------------------- specifications

Init == QIdle /\ PIdle /\ Setup /\ twin = Prog /\ SeqSetup /\ ConvSetup

\* Indicator states for the second copy: as after setup, idle, and lit in
\* the middle of a sequence with three blinks left.
TwinLeds ==
  { Led,
    [onPhase |-> FALSE, inSequence |-> FALSE, blinkCount |-> 0,
     lastMillis |-> 0, pin |-> LOW],
    [onPhase |-> TRUE, inSequence |-> TRUE, blinkCount |-> 3,
     lastMillis |-> 0, pin |-> HIGH] }

\* Both copies after setup(); the second with any of the indicator states.
InitTwin ==
  /\ QIdle /\ PIdle /\ Setup /\ SeqSetup /\ ConvSetup
  /\ \E L \in TwinLeds : twin = [Prog EXCEPT !.led = L]

NextQ ==
  \/ QuantizeAdc /\ UNCHANGED << pvars, progvars, histvars, twin, seqvars, convvars >>
  \/ QuantizeShipped /\ UNCHANGED << pvars, progvars, histvars, twin, seqvars, convvars >>

SpecQ == Init /\ [][NextQ]_vars

NextQAny == QuantizeDirect /\ UNCHANGED << pvars, progvars, histvars, twin, seqvars, convvars >>

SpecQAny == Init /\ [][NextQAny]_vars

SpecBypass == Init /\ [][TickBypass]_vars

SpecDebounce == Init /\ [][TickDebounce]_vars

SpecBlink == Init /\ [][TickBlink]_vars

SpecRange == Init /\ [][TickRange]_vars

\* The clock part of a tick.
ClockAdvance ==
  \E dt \in LiveGaps : millis + dt <= MaxMillisLive /\ millis' = millis + dt

\* loop() is called again and again by the runtime and the timer interrupt
\* keeps millis() advancing: while a tick can happen, one does happen.
SpecLive == Init /\ [][TickLive]_vars /\ WF_millis(ClockAdvance)

SpecTwin == InitTwin /\ [][TickTwin]_vars

\* The sequencer with a free clock, reset input and step-length pot.
MaxMillisEuclid == 3000

EuclidGaps == { 250 }

\* The reset input is pulsed in the first passes only.
LastResetMillis == 500

EuclidStepPots == { 0, 600 }

EuclidPots == { 0, ADC_MAX }

EuclidHitCvs == { 0 }

EuclidRots == { 512 }

EuclidResets(now) == IF now <= LastResetMillis THEN Levels ELSE { LOW }

TickEuclid ==
  \E dt \in EuclidGaps :
    /\ seqMillis + dt <= MaxMillisEuclid
    /\ \E stepModeRaw \in EuclidStepPots, potRaw \in EuclidPots,
          hitCvRaw \in EuclidHitCvs, rotRaw \in EuclidRots,
          trigLevel \in Levels, resetLevel \in EuclidResets(seqMillis + dt) :
         SeqTick(dt, stepModeRaw, potRaw, hitCvRaw, rotRaw, trigLevel,
                 resetLevel, HIGH)
    /\ UNCHANGED << qvars, pvars, progvars, histvars, twin, convvars >>

SpecEuclid == Init /\ [][TickEuclid]_vars

\* The sequencer with the three pots set in the first pass and left alone,
\* the reset input low, the button released and a square wave on the clock
\* input that changes level between any two passes.
MaxMillisPattern == 33500

PatternGaps == { 500 }

StepLengths == { 5, 6, 7, 8, 12, 16 }

\* A reading of the step-length pot that getStepLength takes to stepLength.
StepPotFor(stepLength) ==
  IF stepLength = 5 THEN 0
  ELSE IF stepLength = 6 THEN 165
  ELSE IF stepLength = 7 THEN 335
  ELSE IF stepLength = 8 THEN 506
  ELSE IF stepLength = 12 THEN 677
  ELSE 848

\* The lowest reading that map() of lines 177 and 181 takes to n of stepLength.
PotFor(n, stepLength) ==
  Max(0, ((ADC_MAX * n + stepLength - 1) \div stepLength) - 5)

PatternStart ==
  /\ seqMillis = 0
  /\ \E dt \in PatternGaps, stepLength \in StepLengths, trigLevel \in Levels :
       \E hits \in 0..stepLength, rotation \in 0..stepLength :
         SeqTick(dt, StepPotFor(stepLength), PotFor(hits, stepLength), 0,
                 PotFor(rotation, stepLength), trigLevel, LOW, HIGH)
  /\ UNCHANGED << qvars, pvars, progvars, histvars, twin, convvars >>

PatternTick ==
  /\ seqMillis > 0
  /\ \E dt \in PatternGaps, trigLevel \in { IF lastTriggerInputState THEN LOW ELSE HIGH } :
       /\ seqMillis + dt <= MaxMillisPattern
       /\ SeqTick(dt, seqReadings.stepMode, seqReadings.pot, seqReadings.hitCv,
                  seqReadings.rot, trigLevel, LOW, HIGH)
  /\ UNCHANGED << qvars, pvars, progvars, histvars, twin, convvars >>

NextPattern ==
  \/ PatternStart
  \/ PatternTick

SpecPattern == Init /\ [][NextPattern]_vars

\* The converter.
MaxMillisConv == 45

ConvGaps == { 3, 20 }

ConvOffsetPots == { 0, 512, ADC_MAX }

ConvScalePots == { 0, ADC_MAX }

ConvTrigLenPots == { 0 }

ConvCvs == { 0, 512, ADC_MAX }

TickConv ==
  \E dt \in ConvGaps :
    /\ convMillis + dt <= MaxMillisConv
    /\ \E offsetRaw \in ConvOffsetPots, scaleRaw \in ConvScalePots,
          trigLenRaw \in ConvTrigLenPots, adcRaw \in ConvCvs,
          vTrigReading \in Levels :
         ConvTick(dt, offsetRaw, scaleRaw, trigLenRaw, adcRaw, vTrigReading)
    /\ UNCHANGED << qvars, pvars, progvars, histvars, twin, seqvars >>

SpecConv == Init /\ [][TickConv]_vars

SpecTarget == Init /\ [][TickTarget]_vars

NextPort == PortamentoCall /\ UNCHANGED << qvars, progvars, histvars, twin, seqvars, convvars >>

SpecPort == Init /\ [][NextPort]_vars

NextGlide ==
  \/ GlideStart /\ UNCHANGED << qvars, progvars, histvars, twin, seqvars, convvars >>
  \/ GlideAgain /\ UNCHANGED << qvars, progvars, histvars, twin, seqvars, convvars >>

SpecGlide == Init /\ [][NextGlide]_vars

\* ------------------------------------------------------ claims C1 to C5

InScale(semitone, mask) == mask[(semitone % 12) + 1] = 1

\* C1: for every input value and every 12-entry mask with at least one true
\* entry, quantizeToScale returns a semitone in 0..60 whose semitone class
\* is marked in the mask.
C1_InScaleInRange ==
  qPc = "done" =>
    /\ qResult \in 0..MAX_SEMITONES_INT
    /\ InScale(qResult, qMask)

\* A value above the int range, converted to INT_MAX, against the mask whose
\* only note is class 11: the result is 59.
C1_Witness ==
  /\ qPc = "done"
  /\ qSemi = (INT_MAX + 1) * SEMI_DEN
  /\ qRounded = INT_MAX
  /\ qMask = [i \in 1..12 |-> IF i = 12 THEN 1 ELSE 0]
  /\ qResult = 59

\* C2: for every value produced by adcToSemitone and every shipped mask, no
\* in-scale semitone in 0..60 is strictly closer to the value than the
\* returned semitone.
C2_Nearest ==
  (qPc = "done" /\ qAdc >= 0) =>
    \A s \in 0..MAX_SEMITONES_INT :
      InScale(s, qMask) =>
        Abs(qSemi - s * SEMI_DEN) >= Abs(qSemi - qResult * SEMI_DEN)

\* C3: when round(v)-d and round(v)+d are both in scale and inside 0..60 at
\* the smallest radius d at which any in-scale note exists, the result is
\* round(v)-d; Major with semitone 1 gives 0 and Pentatonic Minor with
\* semitone 6 gives 5.
C3_TieBreakLower ==
  qPc = "done" =>
    /\ \A d \in 0..MAX_SEMITONES_INT :
         ( /\ qRounded - d \in 0..MAX_SEMITONES_INT
           /\ qRounded + d \in 0..MAX_SEMITONES_INT
           /\ InScale(qRounded - d, qMask)
           /\ InScale(qRounded + d, qMask)
           /\ \A s \in 0..MAX_SEMITONES_INT :
                InScale(s, qMask) => Abs(s - qRounded) >= d )
         => qResult = qRounded - d
    /\ (qMask = ScaleMask(SCALE_MAJOR) /\ qSemi = 1 * SEMI_DEN) => qResult = 0
    /\ (qMask = ScaleMask(SCALE_PENT_MINOR) /\ qSemi = 6 * SEMI_DEN) => qResult = 5

\* Pentatonic Minor, semitone 6: 5 and 7 tie at radius 1 and 5 is returned.
C3_Witness ==
  /\ qPc = "done"
  /\ qMask = ScaleMask(SCALE_PENT_MINOR)
  /\ qSemi = 6 * SEMI_DEN
  /\ qResult = 5

\* C4: an integer semitone in 0..60 that is in scale is returned unchanged,
\* and quantizing a result again returns the same result.
C4_Idempotent ==
  qPc = "done" =>
    /\ ( /\ qSemi \in { n * SEMI_DEN : n \in 0..MAX_SEMITONES_INT }
         /\ InScale(qSemi \div SEMI_DEN, qMask) )
       => qResult * SEMI_DEN = qSemi
    /\ quantizeToScale(qResult * SEMI_DEN, qMask) = qResult

\* Major, semitone 7 (in scale): 7 comes back.
C4_Witness ==
  /\ qPc = "done"
  /\ qMask = ScaleMask(SCALE_MAJOR)
  /\ qSemi = 7 * SEMI_DEN
  /\ qResult = 7

\* C5: with a shipped mask the radius loop always returns; the fallback
\* after the loop is never reached.
C5_FallbackUnreached ==
  (qPc = "done" /\ qMask \in ShippedMasks) => qFound

\* Pentatonic Major, candidate 59 (class 11): radius 0 fails, 58 fails and
\* the loop returns 60 at radius 1.
C5_Witness ==
  /\ qPc = "done"
  /\ qMask = ScaleMask(3)
  /\ qRounded = 59
  /\ qFound
  /\ qResult = 60

\* ------------------------------------------------------ claims C6 to C10

\* C6: on the tick in which an accepted press turns bypass from ON to OFF,
\* both channels have currentSemi = targetSemi when the tick completes.
C6_ResyncOnReenable ==
  [][(bypass /\ ~bypass') =>
       /\ ch1'.currentSemi = ch1'.targetSemi
       /\ ch2'.currentSemi = ch2'.targetSemi]_vars

\* C7: a tick that ends with bypass ON leaves currentSemi and targetSemi of
\* both channels unchanged.
C7_FrozenWhileBypassed ==
  [][bypass' => (ch1' = ch1 /\ ch2' = ch2)]_vars

\* Bypass went ON in the middle of a glide (current 30, target 60) and a
\* later tick passed the CV reading 0 straight to the output.
C7_Witness ==
  /\ bypass
  /\ rawReading = HIGH
  /\ ch1.currentSemi = FromInt(30)
  /\ ch1.targetSemi = FromInt(MAX_SEMITONES_INT)
  /\ cvOut1 = 0

\* C8: two changes of bypass are always more than BUTTON_DEBOUNCE_MS apart,
\* and of two raw falling edges read less than BUTTON_DEBOUNCE_MS apart at
\* most one changes bypass.
C8_Debounce ==
  [][ /\ (bypass' # bypass /\ toggleMillis >= 0)
         => toggleMillis' - toggleMillis > BUTTON_DEBOUNCE_MS
      /\ ( /\ rawReading = HIGH /\ rawReading' = LOW
           /\ edgeMillis >= 0 /\ edgeAccepted
           /\ edgeMillis' - edgeMillis < BUTTON_DEBOUNCE_MS )
         => bypass' = bypass ]_vars

\* A falling edge was read less than BUTTON_DEBOUNCE_MS after the edge that
\* turned bypass ON, and was not accepted.
C8_Witness ==
  /\ bypass
  /\ toggleMillis >= 0
  /\ edgeMillis > toggleMillis
  /\ edgeMillis - toggleMillis < BUTTON_DEBOUNCE_MS
  /\ ~edgeAccepted

\* C9 as claimed: a press that began after an accepted toggle and was held
\* until a tick past the debounce window of that toggle has toggled bypass
\* by the time the button is released.
C9_NeverLost ==
  ( /\ rawReading = HIGH
    /\ toggleMillis >= 0
    /\ edgeMillis > toggleMillis
    /\ pressPastWindow )
  => pressToggled

\* C9 as amended: a released-to-pressed transition read more than
\* BUTTON_DEBOUNCE_MS after the last accepted toggle changes bypass on that
\* tick; one read inside the window is dropped and bypass does not change
\* for as long as the button is then held; the level read is recorded on
\* every tick, inside the window too.
C9_DroppedNotDelayed ==
  [][ /\ ( /\ rawReading = HIGH /\ rawReading' = LOW
           /\ edgeMillis' - lastButtonMillis > BUTTON_DEBOUNCE_MS )
         => bypass' # bypass
      /\ ( /\ rawReading = HIGH /\ rawReading' = LOW
           /\ edgeMillis' - lastButtonMillis <= BUTTON_DEBOUNCE_MS )
         => bypass' = bypass
      /\ rawReading = LOW => bypass' = bypass
      /\ lastButtonReading' = rawReading' ]_vars

\* A press read inside the window of an accepted toggle is still held on a
\* tick past the window and has not toggled bypass.
C9_Witness ==
  /\ rawReading = LOW
  /\ toggleMillis >= 0
  /\ edgeMillis > toggleMillis
  /\ pressPastWindow
  /\ ~pressToggled

\* C10: a blink sequence armed for scale index k, with no further change
\* of the index, ends after exactly k+1 rises and k+1 falls of the lamp,
\* with the lamp off.
C10_BlinkCount ==
  [][(ledInSequence /\ ~ledInSequence') =>
       /\ ledRises' = currentScaleIndex' + 1
       /\ ledFalls' = currentScaleIndex' + 1
       /\ ledPinLevel' = LOW]_vars

\* The sequence for scale index 6 has ended after seven on/off pairs.
C10_Witness ==
  /\ ~ledInSequence
  /\ currentScaleIndex = NUM_SCALES - 1
  /\ ledRises = NUM_SCALES
  /\ ledFalls = NUM_SCALES
  /\ ledPinLevel = LOW

\* ---------------------------------------------------- claims C11 to C13

\* C11: for every portRaw below the snappy threshold 10 and every current and
\* target, applyPortamento returns exactly target.
C11_SnappyReturnsTarget ==
  (pPc = "done" /\ pRaw < SNAPPY_BELOW) => pResult = pTarget

C11_Witness ==
  /\ pPc = "done"
  /\ pRaw = SNAPPY_BELOW - 1
  /\ pCurrent = FromInt(30)
  /\ pTarget = FromInt(MAX_SEMITONES_INT)
  /\ pResult = pTarget

\* a <= b on floats.
FLeq(a, b) == ~FLess(b, a)

\* x lies between a (excluded) and b (included): closer to b than a is, and
\* not past b.
MovedToward(a, x, b) ==
  IF FLess(a, b) THEN FLess(a, x) /\ FLeq(x, b)
  ELSE FLess(x, a) /\ FLeq(b, x)

\* x lies between a and b, both included.
NotAwayFrom(a, x, b) ==
  IF FLess(a, b) THEN FLeq(a, x) /\ FLeq(x, b)
  ELSE FLeq(x, a) /\ FLeq(b, x)

GlideCase ==
  /\ pPc = "done"
  /\ pRaw \in SNAPPY_BELOW..ADC_MAX
  /\ pCurrent # pTarget

\* C12 as stated: for a fixed target and portRaw in 10..1023, every
\* application from a current other than target strictly reduces
\* |current - target| and does not pass target; with one step it returns
\* target.
C12_StrictlyCloser ==
  GlideCase =>
    /\ MovedToward(pCurrent, pResult, pTarget)
    /\ PortSteps(pRaw) = 1 => pResult = pTarget

\* 2^-13 semitone.
GlideEpsilon == [m |-> 1, e |-> -13]

FarFromTarget ==
  FLeq(GlideEpsilon, FSub(pTarget, pCurrent))
  \/ FLeq(GlideEpsilon, FSub(pCurrent, pTarget))

\* C12 amended: every such application leaves |current - target| no larger
\* and does not pass target; it strictly reduces the distance whenever the
\* distance is at least 2^-13 semitone (closer than that, the float sum can
\* round back to current); with one step it returns target.
C12_CloserAboveEpsilon ==
  GlideCase =>
    /\ NotAwayFrom(pCurrent, pResult, pTarget)
    /\ FarFromTarget => MovedToward(pCurrent, pResult, pTarget)
    /\ PortSteps(pRaw) = 1 => pResult = pTarget

C12_Witness ==
  /\ GlideCase
  /\ PortSteps(pRaw) = 3
  /\ pCurrent = FromInt(0)
  /\ pTarget = FromInt(MAX_SEMITONES_INT)
  /\ pResult = FromInt(20)

\* C13: applyPortamento maps portRaw 0..1023 onto step counts 1..33: the
\* count is non-decreasing in portRaw, 1 at portRaw 0 and 33 at portRaw 1023.
C13_StepsUpTo33 ==
  (pPc = "done" /\ pRaw \in 0..ADC_MAX) =>
    /\ PortSteps(pRaw) \in 1..33
    /\ pRaw > 0 => PortSteps(pRaw - 1) <= PortSteps(pRaw)
    /\ pRaw = 0 => PortSteps(pRaw) = 1
    /\ pRaw = ADC_MAX => PortSteps(pRaw) = 33

\* ---------------------------------------------------- claims C14 to C16

InSemiRange(x) == FLeq(FromInt(0), x) /\ FLeq(x, FromInt(MAX_SEMITONES_INT))

\* C14: in every reachable state, whatever the readings were, currentSemi
\* and targetSemi of both channels lie in [0, 60].
C14_ChannelRange ==
  /\ InSemiRange(ch1.currentSemi) /\ InSemiRange(ch1.targetSemi)
  /\ InSemiRange(ch2.currentSemi) /\ InSemiRange(ch2.targetSemi)

\* A glide toward 60 under a transpose reading far above 1023.
C14_Witness ==
  /\ ~bypass
  /\ readings.transposeRaw > ADC_MAX
  /\ readings.portamentoRaw > ADC_MAX
  /\ ch1.targetSemi = FromInt(MAX_SEMITONES_INT)
  /\ FLess(FromInt(0), ch1.currentSemi)
  /\ FLess(ch1.currentSemi, ch1.targetSemi)

\* C15: for any readings of the CV inputs and the pots, also outside
\* 0..1023, every value written to either CV output, bypassed or quantized,
\* lies in [0, 255].
C15_OutputRange == cvOut1 \in 0..PWM_MAX /\ cvOut2 \in 0..PWM_MAX

C15_Witness ==
  /\ bypass
  /\ readings.cv1Adc > ADC_MAX
  /\ readings.cv2Adc < 0
  /\ cvOut1 = PWM_MAX
  /\ cvOut2 = 0

\* C16: in every reachable state currentScaleIndex is in 0..NUM_SCALES-1,
\* for any scale pot reading.
C16_ScaleIndexRange == currentScaleIndex \in 0..(NUM_SCALES - 1)

C16_Witness ==
  /\ readings.scalePot > ADC_MAX
  /\ currentScaleIndex = NUM_SCALES - 1

\* ---------------------------------------------------- claims C17 to C20

\* C17: bypass changes during a tick if and only if the level recorded
\* before the tick is HIGH, the level read in the tick is LOW and more than
\* BUTTON_DEBOUNCE_MS have passed since the last accepted transition; a
\* button held LOW from one tick to the next never changes it.
C17_ToggleIff ==
  [][ /\ (bypass' # bypass) <=>
           ( /\ lastButtonReading = HIGH
             /\ rawReading' = LOW
             /\ buttonNow' - lastButtonMillis > BUTTON_DEBOUNCE_MS )
      /\ (lastButtonReading = LOW /\ rawReading' = LOW) => bypass' = bypass
    ]_vars

\* The press that turned bypass ON is still held on a tick past the window,
\* and bypass is still ON.
C17_Witness ==
  /\ bypass
  /\ rawReading = LOW
  /\ edgeMillis = toggleMillis
  /\ buttonNow - toggleMillis > BUTTON_DEBOUNCE_MS

\* C18: on the tick that accepts a press, the output branch of the same
\* tick uses the new value of bypass: turned ON, the outputs are the mapped
\* raw readings and the channel state is untouched; turned OFF, the
\* quantize-and-glide path runs in that tick.
C18_BranchOnNewFlag ==
  [][ (bypass' # bypass) =>
        LET r  == readings'
            tr == map(r.transposeRaw, 0, ADC_MAX, -12, 12)
            m  == ScaleMask(currentScaleIndex')
            q1 == QuantizedChannel(Resync(ch1), r.cv1Adc, m, tr, r.portamentoRaw)
            q2 == QuantizedChannel(Resync(ch2), r.cv2Adc, m, tr, r.portamentoRaw)
        IN  IF bypass'
            THEN /\ ch1' = ch1
                 /\ ch2' = ch2
                 /\ cvOut1' = BypassedChannel(ch1, r.cv1Adc).pwm
                 /\ cvOut2' = BypassedChannel(ch2, r.cv2Adc).pwm
            ELSE /\ ch1' = q1.ch
                 /\ ch2' = q2.ch
                 /\ cvOut1' = q1.pwm
                 /\ cvOut2' = q2.pwm
    ]_vars

\* The tick that turned bypass ON read CV 1023 on channel 1 and wrote 255,
\* leaving the channel at note 0.
C18_Witness ==
  /\ bypass
  /\ toggleMillis = buttonNow
  /\ readings.cv1Adc = ADC_MAX
  /\ cvOut1 = PWM_MAX
  /\ cvOut2 = 0
  /\ ch1.targetSemi = FromInt(0)

\* C19: after every tick that leaves bypass OFF, targetSemi of each channel
\* is clamp(quantizeToScale(adcToSemitone(cv), SCALE_MASKS[s]) + transpose,
\* 0, 60), with s the index computed from the scale pot of that tick and
\* transpose the transpose pot mapped onto -12..+12.
C19_TargetOfThisTick ==
  (millis > 0 /\ ~bypass) =>
    LET s  == Clamp(map(readings.scalePot, 0, ADC_MAX, 0, NUM_SCALES - 1),
                    0, NUM_SCALES - 1)
        tr == map(readings.transposeRaw, 0, ADC_MAX, -12, 12)
        T(cv) == Clamp(quantizeToScale(adcToSemitone(cv), SCALE_MASKS[s + 1]) + tr,
                       0, MAX_SEMITONES_INT)
    IN  /\ tr \in -12..12
        /\ ch1.targetSemi = FromInt(T(readings.cv1Adc))
        /\ ch2.targetSemi = FromInt(T(readings.cv2Adc))

\* The tick changed the scale to harmonic minor (index 2), read CV 400
\* (semitone 23) and transpose -5: the target is 18.
C19_Witness ==
  /\ ~bypass
  /\ millis > 0
  /\ ledLastMillis = millis
  /\ currentScaleIndex = 2
  /\ readings.transposeRaw = 300
  /\ readings.cv1Adc = 400
  /\ ch1.targetSemi = FromInt(18)

\* C20: a blink sequence is armed in a tick exactly when the index computed
\* in the tick differs from the stored one; arming sets the count to
\* scaleIndex + 1, the phase to lamp-off, the timestamp to the current time
\* and the lamp off, also while a sequence is running.  In a tick that does
\* not arm, the indicator changes only as updateLedBlink changes it.
C20_ArmedOnIndexChange ==
  [][ IF currentScaleIndex' # currentScaleIndex
      THEN /\ ledInSequence'
           /\ ledBlinkCount' = currentScaleIndex' + 1
           /\ ~ledOnPhase'
           /\ ledLastMillis' = millis'
           /\ ledPinLevel' = LOW
      ELSE \/ Led' = Led
           \/ Led' = updateLedBlink(Led, ledLastMillis')
    ]_vars

\* 180 ms after setup armed the sequence for scale 0, a tick armed the
\* sequence for scale 3.
C20_Witness ==
  /\ millis = 180
  /\ ledLastMillis = millis
  /\ currentScaleIndex = 3
  /\ ledInSequence
  /\ ~ledOnPhase
  /\ ledBlinkCount = 4
  /\ ledPinLevel = LOW

\* ---------------------------------------------------- claims C21 to C24

\* C21: once the scale index has stopped changing and ticks keep occurring
\* while time advances, every armed blink sequence eventually reaches the
\* idle state with the lamp off, and the indicator stays idle with the lamp
\* off until the scale index changes again.
C21_BlinkTerminates ==
  /\ ledInSequence ~> (~ledInSequence /\ ledPinLevel = LOW)
  /\ [][ (~ledInSequence /\ currentScaleIndex' = currentScaleIndex)
           => (~ledInSequence' /\ ledPinLevel' = LOW) ]_vars

\* The sequence for scale 2, armed before the pot came to rest, has ended
\* after three on/off pairs.
C21_Witness ==
  /\ millis > LastChangeMillis
  /\ currentScaleIndex = 2
  /\ ~ledInSequence
  /\ ledPinLevel = LOW
  /\ ledRises = 3
  /\ ledFalls = 3

\* C22: two copies of the quantizer stepped with the same readings but
\* different blink-sequence states (phase, count, timestamp) have the same
\* bypass flag, the same channel states and the same CV output values after
\* every tick.
C22_IndicatorObservational ==
  /\ twin.bypass = bypass
  /\ twin.ch1 = ch1
  /\ twin.ch2 = ch2
  /\ twin.cvOut1 = cvOut1
  /\ twin.cvOut2 = cvOut2

\* After a glide and a toggle of bypass the two copies, whose scale has not
\* changed, show different lamps.
C22_Witness ==
  /\ twin.led.pin # ledPinLevel
  /\ twin.led.blinkCount # ledBlinkCount
  /\ bypass
  /\ toggleMillis >= 0
  /\ ch1.targetSemi = FromInt(MAX_SEMITONES_INT)
  /\ ch1.currentSemi = FromInt(30)

\* C24: in every reachable state ledPin is HIGH exactly when ledOnPhase
\* holds, ledOnPhase implies ledInSequence, and ledInSequence implies
\* 1 <= ledBlinkCount <= NUM_SCALES; so an idle indicator has the lamp off.
C24_IndicatorConsistent ==
  /\ (ledPinLevel = HIGH) <=> ledOnPhase
  /\ ledOnPhase => ledInSequence
  /\ ledInSequence => ledBlinkCount \in 1..NUM_SCALES
  /\ ~ledInSequence => ledPinLevel = LOW

\* The lamp is lit for the first blink of the sequence for scale 6.
C24_Witness ==
  /\ ledPinLevel = HIGH
  /\ ledOnPhase
  /\ ledInSequence
  /\ ledBlinkCount = NUM_SCALES

\* ---------------------------------------------------- claims C23 to C27

\* C23: every LOW-to-HIGH transition of the clock input seen by a pass of
\* loop() advances currentStep by exactly one modulo the current step length,
\* in every state, also while the step-length-change indicator is lit (passes
\* that accept a reset, which puts the step back to 0, are left aside).
C23_EdgeAdvances ==
  [][(/\ seqMillis' # seqMillis
      /\ lastTriggerInputState' /\ ~lastTriggerInputState
      /\ ~access'.reset)
     => currentStep' = CMod(currentStep + 1, currentStepLength')]_vars

\* C26: on every clock edge selectedHits is in 0..L and rotatedStep is in
\* 0..L-1 for the step length L of that pass, whatever currentStep was.
C26_AccessInBounds ==
  access.seen =>
    /\ access.hits \in 0..access.len
    /\ access.rotated \in 0..(access.len - 1)

\* A table was looked up on an edge that found currentStep at or past a step
\* length that had just become shorter, with the rotation pot turned up.
C26_Witness ==
  /\ access.seen /\ access.looked
  /\ access.step >= access.len
  /\ access.hits = access.len
  /\ access.rotated # 0

CountTrue(q) == Cardinality({ i \in 1..Len(q) : q[i] })

\* C27: with step length, hits and rotation held, currentStep below the step
\* length, no reset and the indicator off, any L consecutive clock edges
\* start exactly as many triggers as there are hits selected.
C27_HitsPerCycle ==
  Len(edgeLog) = logSel[1] => CountTrue(edgeLog) = logSel[2]

\* Sixteen consecutive edges at step length 16 with 5 hits and rotation 3,
\* the window starting in the middle of the pattern.
C27_Witness ==
  /\ Len(edgeLog) = 16
  /\ logSel = << 16, 5, 3 >>
  /\ currentStep = 7
  /\ CountTrue(edgeLog) = 5

\* C25: the product out * scale of the converter stays within the 16-bit
\* int, so that the duty written is clamp(((out * scale) >> 8) + offset,
\* 0, 255).
C25_ProductFitsInt ==
  /\ product \in INT_MIN..INT_MAX
  /\ duty = Clamp((product \div 256) + convIn.offset, 0, PWM_MAX)

====
